---- MODULE Spec2Model ----
(***************************************************************************)
(* Meeting-room booking service: POST /book-slot (book_slot) and           *)
(* GET /dashboard-grid (get_dashboard_grid) running as concurrent request  *)
(* handlers over one "bookings" table that carries a primary key and the   *)
(* unique constraint unique_booking_slot(room_id, booking_date, slot_hour).*)
(***************************************************************************)
EXTENDS Integers, Sequences, FiniteSets, TLC

(* ------------------------------ bounds --------------------------------- *)
\* concurrent request handlers; each serves one request
NumProc == 3
\* rows in the table when a grid query is studied on its own
MaxBookings == 2

Procs == 1..NumProc

(* --------------------------- configuration ----------------------------- *)
\* main.py: OFFICE_HOURS_MAP, a dict, iterated in insertion order
OFFICE_HOURS_MAP ==
    << [hour |-> 10, label |-> "10-11 AM"],
       [hour |-> 11, label |-> "11-12 PM"],
       [hour |-> 12, label |-> "12-1 PM"],
       [hour |-> 13, label |-> "1-2 PM"],
       [hour |-> 14, label |-> "2-3 PM"],
       [hour |-> 15, label |-> "3-4 PM"],
       [hour |-> 16, label |-> "4-5 PM"],
       [hour |-> 17, label |-> "5-6 PM"],
       [hour |-> 18, label |-> "6-7 PM"] >>

TOTAL_ROOMS == 10

\* `x in OFFICE_HOURS_MAP`: membership among the dict's keys
InOfficeHours(h) == \E i \in DOMAIN OFFICE_HOURS_MAP : OFFICE_HOURS_MAP[i].hour = h

(* ------------------------------ inputs --------------------------------- *)
\* booking_date: date, two calendar days as day numbers
Dates == {1, 2}
\* team_name: str is any string, the empty one included
Teams == {"Alpha", ""}
\* requests of the concurrent system: one room and hour on either date under
\* either team name, and one request for each way of failing validation
ValidInputs ==
    [room_id : {1}, booking_date : Dates, slot_hour : {10}, team_name : Teams]
InvalidInputs ==
    { [room_id |-> 0, booking_date |-> 1, slot_hour |-> 10, team_name |-> "Alpha"],
      [room_id |-> 1, booking_date |-> 1, slot_hour |-> 19, team_name |-> "Alpha"],
      [room_id |-> TOTAL_ROOMS + 1, booking_date |-> 2, slot_hour |-> 9, team_name |-> ""] }
BookingInputs == ValidInputs \cup InvalidInputs
\* requests of the validator on its own: every boundary of both checks
BoundaryRooms == {-1, 0, 1, 2, TOTAL_ROOMS - 1, TOTAL_ROOMS, TOTAL_ROOMS + 1}
BoundaryHours == 8..20
BoundaryInputs ==
    [room_id : BoundaryRooms, booking_date : Dates, slot_hour : BoundaryHours,
     team_name : Teams]

\* bookings a grid query can meet in the table: first, middle and last room
\* and hour, every date and team
GridRooms == {1, 3, TOTAL_ROOMS}
GridHours == {10, 14, 18}
GridBookings ==
    [room_id : GridRooms, booking_date : Dates, slot_hour : GridHours, team_name : Teams]

(* ------------------------------- state --------------------------------- *)
VARIABLES
    store,        \* committed rows of table "bookings"
    seq,          \* last value handed out by the id sequence of the table
    pc,           \* position of each request handler
    req,          \* the request a handler serves
    new_booking,  \* book_slot: the Booking object of the handler's session
    bookings,     \* get_dashboard_grid: the rows the SELECT returned, in order
    resp          \* the response a handler returned

vars == <<store, seq, pc, req, new_booking, bookings, resp>>

\* Optional[...] values: None is the empty tuple, a value v is <<v>>
None == << >>
Some(v) == << v >>

NoRequest == [op |-> "none"]
NoResponse == [status |-> 0]

Triple(b) == << b.room_id, b.booking_date, b.slot_hour >>

\* rows INSERTed by a transaction that has not committed yet
Pending(p) == IF pc[p] = "commit" THEN {new_booking[p]} ELSE {}
PendingOthers(p) == UNION {Pending(q) : q \in Procs \ {p}}

Init ==
    /\ store = {}
    /\ seq = 0
    /\ pc = [p \in Procs |-> "idle"]
    /\ req = [p \in Procs |-> NoRequest]
    /\ new_booking = [p \in Procs |-> None]
    /\ bookings = [p \in Procs |-> << >>]
    /\ resp = [p \in Procs |-> NoResponse]


(* ------------------------------ storage -------------------------------- *)
\* the constraint declared over one column too many
unique_booking_slot_with_team(a, b) == Triple(a) = Triple(b) /\ a.team_name = b.team_name

\* the constraint declared without booking_date
unique_booking_slot_no_date(a, b) == a.room_id = b.room_id /\ a.slot_hour = b.slot_hour

\* the constraint declared without slot_hour
unique_booking_slot_no_hour(a, b) == a.room_id = b.room_id /\ a.booking_date = b.booking_date

\* models.py: UniqueConstraint("room_id", "booking_date", "slot_hour"):
\* two rows collide when they agree on the three constrained columns
unique_booking_slot(a, b) == Triple(a) = Triple(b)

\* the INSERT of row raises IntegrityError: a committed row holds its key
IntegrityError(row) == \E b \in store : unique_booking_slot(b, row)

\* an index that decides on committed rows alone
InsertNeverWaits(p) == FALSE

\* the INSERT of p waits: an uncommitted row of another transaction holds its
\* key, and the index decides only when that transaction has ended
InsertWaits(p) == \E b \in PendingOthers(p) : unique_booking_slot(b, new_booking[p])

\* every order in which a SELECT without ORDER BY may return the rows
Orders(rows) ==
    { s \in [1..Cardinality(rows) -> rows] : \A b \in rows : \E i \in DOMAIN s : s[i] = b }

\* the SELECT without its WHERE clause
SelectBookings_all_dates(rows, target_date) == rows

\* select(Booking).where(Booking.booking_date == target_date)
SelectBookings(rows, target_date) == { b \in rows : b.booking_date = target_date }

(* --------------------------- POST /book-slot --------------------------- *)
\* the room check with its lower bound off by one
Validation_room_from_zero(booking_data) ==
    IF booking_data.room_id < 0 \/ booking_data.room_id > TOTAL_ROOMS
    THEN "Invalid Room ID"
    ELSE IF ~InOfficeHours(booking_data.slot_hour)
         THEN "Invalid time slot. Office open 10-19"
         ELSE ""

\* the slot check done on the range the message names, not on the catalog
Validation_hours_of_message(booking_data) ==
    IF booking_data.room_id < 1 \/ booking_data.room_id > TOTAL_ROOMS
    THEN "Invalid Room ID"
    ELSE IF booking_data.slot_hour \notin 10..19
         THEN "Invalid time slot. Office open 10-19"
         ELSE ""

\* the validation without its second check
Validation_room_only(booking_data) ==
    IF booking_data.room_id < 1 \/ booking_data.room_id > TOTAL_ROOMS
    THEN "Invalid Room ID"
    ELSE ""

\* the two checks in the other order
Validation_slot_first(booking_data) ==
    IF ~InOfficeHours(booking_data.slot_hour)
    THEN "Invalid time slot. Office open 10-19"
    ELSE IF booking_data.room_id < 1 \/ booking_data.room_id > TOTAL_ROOMS
         THEN "Invalid Room ID"
         ELSE ""

\* the two checks of book_slot, in their order; "" when both pass
Validation(booking_data) ==
    IF booking_data.room_id < 1 \/ booking_data.room_id > TOTAL_ROOMS
    THEN "Invalid Room ID"
    ELSE IF ~InOfficeHours(booking_data.slot_hour)
         THEN "Invalid time slot. Office open 10-19"
         ELSE ""

\* the Booking object built without the request's team name
NewBooking_blank_team(booking_data) ==
    [id |-> 0,
     room_id |-> booking_data.room_id,
     booking_date |-> booking_data.booking_date,
     slot_hour |-> booking_data.slot_hour,
     team_name |-> ""]

\* the Booking object built with room and hour taken from each other's field
NewBooking_swapped(booking_data) ==
    [id |-> 0,
     room_id |-> booking_data.slot_hour,
     booking_date |-> booking_data.booking_date,
     slot_hour |-> booking_data.room_id,
     team_name |-> booking_data.team_name]

\* Booking(room_id=..., booking_date=..., slot_hour=..., team_name=...): id None
NewBooking(booking_data) ==
    [id |-> 0,
     room_id |-> booking_data.room_id,
     booking_date |-> booking_data.booking_date,
     slot_hour |-> booking_data.slot_hour,
     team_name |-> booking_data.team_name]

\* a handler that writes the row first and validates afterwards
book_slot_validate_late(p, booking_data) ==
    /\ pc[p] = "idle"
    /\ req' = [req EXCEPT ![p] = [op |-> "book_slot", data |-> booking_data]]
    /\ IF Validation(booking_data) # ""
       THEN /\ resp' = [resp EXCEPT ![p] =
                          [status |-> 400, detail |-> Validation(booking_data)]]
            /\ pc' = [pc EXCEPT ![p] = "done"]
            /\ seq' = seq + 1
            /\ store' = store \cup {[NewBooking(booking_data) EXCEPT !.id = seq']}
            /\ UNCHANGED new_booking
       ELSE /\ new_booking' = [new_booking EXCEPT ![p] = NewBooking(booking_data)]
            /\ pc' = [pc EXCEPT ![p] = "flush"]
            /\ UNCHANGED <<resp, store, seq>>
    /\ UNCHANGED bookings

\* request arrives; validation; the Booking object is built
book_slot_validate(p, booking_data) ==
    /\ pc[p] = "idle"
    /\ req' = [req EXCEPT ![p] = [op |-> "book_slot", data |-> booking_data]]
    /\ IF Validation(booking_data) # ""
       THEN /\ resp' = [resp EXCEPT ![p] =
                          [status |-> 400, detail |-> Validation(booking_data)]]
            /\ pc' = [pc EXCEPT ![p] = "done"]
            /\ UNCHANGED new_booking
       ELSE /\ new_booking' = [new_booking EXCEPT ![p] = NewBooking(booking_data)]
            /\ pc' = [pc EXCEPT ![p] = "flush"]
            /\ UNCHANGED resp
    /\ UNCHANGED <<store, seq, bookings>>

\* an INSERT that numbers the row by the count of committed rows
book_slot_flush_count_id(p) ==
    /\ pc[p] = "flush"
    /\ ~InsertWaits(p)
    /\ seq' = seq + 1
    /\ IF IntegrityError(new_booking[p])
       THEN /\ pc' = [pc EXCEPT ![p] = "rollback"]
            /\ UNCHANGED new_booking
       ELSE /\ new_booking' = [new_booking EXCEPT ![p].id = Cardinality(store) + 1]
            /\ pc' = [pc EXCEPT ![p] = "commit"]
    /\ UNCHANGED <<store, req, bookings, resp>>

\* session.add(new_booking); session.commit(), first half: the INSERT. The id
\* comes from the table's sequence, which advances whether the row goes in or not
book_slot_flush(p) ==
    /\ pc[p] = "flush"
    /\ ~InsertWaits(p)
    /\ seq' = seq + 1
    /\ IF IntegrityError(new_booking[p])
       THEN /\ pc' = [pc EXCEPT ![p] = "rollback"]
            /\ UNCHANGED new_booking
       ELSE /\ new_booking' = [new_booking EXCEPT ![p].id = seq']
            /\ pc' = [pc EXCEPT ![p] = "commit"]
    /\ UNCHANGED <<store, req, bookings, resp>>

\* a COMMIT that writes the row as an upsert keyed on room and hour
book_slot_commit_merge(p) ==
    /\ pc[p] = "commit"
    /\ store' = { b \in store : ~(b.room_id = new_booking[p].room_id
                                   /\ b.slot_hour = new_booking[p].slot_hour) }
                  \cup {new_booking[p]}
    /\ pc' = [pc EXCEPT ![p] = "refresh"]
    /\ UNCHANGED <<seq, req, new_booking, bookings, resp>>

\* session.commit(), second half: COMMIT makes the row visible and durable
book_slot_commit(p) ==
    /\ pc[p] = "commit"
    /\ store' = store \cup {new_booking[p]}
    /\ pc' = [pc EXCEPT ![p] = "refresh"]
    /\ UNCHANGED <<seq, req, new_booking, bookings, resp>>

\* session.refresh(new_booking): reload the row by primary key; return 201
book_slot_refresh(p) ==
    /\ pc[p] = "refresh"
    /\ \E row \in store :
         /\ row.id = new_booking[p].id
         /\ new_booking' = [new_booking EXCEPT ![p] = row]
         /\ resp' = [resp EXCEPT ![p] =
                       [status |-> 201, message |-> "Booking successful", id |-> row.id]]
    /\ pc' = [pc EXCEPT ![p] = "done"]
    /\ UNCHANGED <<store, seq, req, bookings>>

\* a handler that answers the conflict by writing over the row in place
book_slot_rollback_overwrite(p) ==
    /\ pc[p] = "rollback"
    /\ store' = { IF unique_booking_slot(b, new_booking[p])
                  THEN [b EXCEPT !.team_name = new_booking[p].team_name]
                  ELSE b : b \in store }
    /\ resp' = [resp EXCEPT ![p] =
                  [status |-> 409, detail |-> "Slot already booked for this room and time."]]
    /\ pc' = [pc EXCEPT ![p] = "done"]
    /\ UNCHANGED <<seq, req, new_booking, bookings>>

\* except IntegrityError: session.rollback(); raise HTTPException(409)
book_slot_rollback(p) ==
    /\ pc[p] = "rollback"
    /\ resp' = [resp EXCEPT ![p] =
                  [status |-> 409, detail |-> "Slot already booked for this room and time."]]
    /\ pc' = [pc EXCEPT ![p] = "done"]
    /\ UNCHANGED <<store, seq, req, new_booking, bookings>>

(* ------------------------- GET /dashboard-grid ------------------------- *)
\* the lookup keyed (slot_hour, room_id), read back as (room_id, slot_hour)
booking_map_swapped_key(bs) ==
    [ k \in { << bs[i].slot_hour, bs[i].room_id >> : i \in DOMAIN bs } |->
        LET last == CHOOSE i \in DOMAIN bs :
                      /\ << bs[i].slot_hour, bs[i].room_id >> = k
                      /\ \A j \in DOMAIN bs :
                           << bs[j].slot_hour, bs[j].room_id >> = k => j <= i
        IN bs[last] ]

\* the lookup built from the first row alone, as after .first() for .all()
booking_map_first_row(bs) ==
    [ k \in { << bs[i].room_id, bs[i].slot_hour >> : i \in DOMAIN bs \cap {1} } |-> bs[1] ]

\* { (b.room_id, b.slot_hour): b for b in bookings }: a later row replaces an
\* earlier one under the same key
booking_map(bs) ==
    [ k \in { << bs[i].room_id, bs[i].slot_hour >> : i \in DOMAIN bs } |->
        LET last == CHOOSE i \in DOMAIN bs :
                      /\ << bs[i].room_id, bs[i].slot_hour >> = k
                      /\ \A j \in DOMAIN bs :
                           << bs[j].room_id, bs[j].slot_hour >> = k => j <= i
        IN bs[last] ]

\* the occupied cell built without the booking's team name
SlotStatus_no_team(map, room_id, entry) ==
    [time_label |-> entry.label,
     slot_hour |-> entry.hour,
     status |-> IF << room_id, entry.hour >> \in DOMAIN map THEN "occupied" ELSE "available",
     team_name |-> None]

\* one SlotStatus: booking_map.get((room_id, hour)), then the if/else
SlotStatus(map, room_id, entry) ==
    IF << room_id, entry.hour >> \in DOMAIN map
    THEN [time_label |-> entry.label,
          slot_hour |-> entry.hour,
          status |-> "occupied",
          team_name |-> Some(map[<< room_id, entry.hour >>].team_name)]
    ELSE [time_label |-> entry.label,
          slot_hour |-> entry.hour,
          status |-> "available",
          team_name |-> None]

\* the inner loop walking the catalog from its last entry to its first
room_schedule_reversed(map, room_id) ==
    [ i \in DOMAIN OFFICE_HOURS_MAP |->
        SlotStatus(map, room_id, OFFICE_HOURS_MAP[Len(OFFICE_HOURS_MAP) + 1 - i]) ]

\* the inner loop: for hour, label in OFFICE_HOURS_MAP.items()
room_schedule(map, room_id) ==
    [ i \in DOMAIN OFFICE_HOURS_MAP |-> SlotStatus(map, room_id, OFFICE_HOURS_MAP[i]) ]

\* the outer loop as range(1, TOTAL_ROOMS)
RoomRange_exclusive == [ i \in 1..(TOTAL_ROOMS - 1) |-> i ]

\* the outer loop: for room_id in range(1, TOTAL_ROOMS + 1)
RoomRange == [ i \in 1..TOTAL_ROOMS |-> i ]

dashboard_data(bs) ==
    LET map == booking_map(bs)
    IN [ i \in DOMAIN RoomRange |->
           [room_id |-> RoomRange[i], schedule |-> room_schedule(map, RoomRange[i])] ]

\* request arrives; the single SELECT of the date's bookings
get_dashboard_grid_select(p, target_date) ==
    /\ pc[p] = "idle"
    /\ req' = [req EXCEPT ![p] = [op |-> "get_dashboard_grid", target_date |-> target_date]]
    /\ \E rows \in Orders(SelectBookings(store, target_date)) :
         bookings' = [bookings EXCEPT ![p] = rows]
    /\ pc' = [pc EXCEPT ![p] = "build"]
    /\ UNCHANGED <<store, seq, new_booking, resp>>

\* steps 2 and 3: the lookup and the grid; return dashboard_data
get_dashboard_grid_build(p) ==
    /\ pc[p] = "build"
    /\ resp' = [resp EXCEPT ![p] = [status |-> 200, body |-> dashboard_data(bookings[p])]]
    /\ pc' = [pc EXCEPT ![p] = "done"]
    /\ UNCHANGED <<store, seq, req, new_booking, bookings>>

(* --------------------------- specifications ---------------------------- *)
Next ==
    \E p \in Procs :
        \/ \E booking_data \in BookingInputs : book_slot_validate(p, booking_data)
        \/ book_slot_flush(p)
        \/ book_slot_commit(p)
        \/ book_slot_refresh(p)
        \/ book_slot_rollback(p)
        \/ \E target_date \in Dates : get_dashboard_grid_select(p, target_date)
        \/ get_dashboard_grid_build(p)

Spec == Init /\ [][Next]_vars

\* the booking handlers alone, over requests for one slot on each date and one
\* request the validator rejects. The event loop runs every handler that can take
\* a step, and the database ends every statement it was sent: no handler that
\* can go on waits forever
LiveInputs ==
    {d \in ValidInputs : d.team_name = "Alpha"} \cup {d \in InvalidInputs : d.room_id = 0}

NextBookings ==
    \E p \in Procs :
        \/ \E booking_data \in LiveInputs : book_slot_validate(p, booking_data)
        \/ book_slot_flush(p)
        \/ book_slot_commit(p)
        \/ book_slot_refresh(p)
        \/ book_slot_rollback(p)

SpecLive ==
    /\ Init
    /\ [][NextBookings]_vars
    /\ \A p \in Procs :
         WF_vars(book_slot_flush(p) \/ book_slot_commit(p)
                   \/ book_slot_refresh(p) \/ book_slot_rollback(p))

\* the validator alone, one request, over every boundary of its two checks
NextValidator == \E booking_data \in BoundaryInputs : book_slot_validate(1, booking_data)

SpecValidator == Init /\ [][NextValidator]_vars

\* N requests for one and the same free slot, all past validation and about to
\* write: the N parallel attempts at the same triple
InitSameSlot ==
    /\ store = {}
    /\ seq = 0
    /\ pc = [p \in Procs |-> "flush"]
    /\ req \in [Procs -> { [op |-> "book_slot", data |-> d] :
                             d \in { x \in BookingInputs : Validation(x) = "" } }]
    /\ \A p, q \in Procs : Triple(req[p].data) = Triple(req[q].data)
    /\ new_booking = [p \in Procs |-> NewBooking(req[p].data)]
    /\ bookings = [p \in Procs |-> << >>]
    /\ resp = [p \in Procs |-> NoResponse]

NextSameSlot ==
    \E p \in Procs :
        \/ book_slot_flush(p)
        \/ book_slot_commit(p)
        \/ book_slot_refresh(p)
        \/ book_slot_rollback(p)

SpecSameSlot == InitSameSlot /\ [][NextSameSlot]_vars

\* the slots of GridBookings in one fixed order
SlotRank(b) == (b.booking_date * 100 + b.room_id) * 100 + b.slot_hour

\* the table as book_slot leaves it: up to MaxBookings rows, at most one row
\* per slot, ids 1, 2, ... from the sequence
Tables ==
    { { [id |-> i,
         room_id |-> f[i].room_id,
         booking_date |-> f[i].booking_date,
         slot_hour |-> f[i].slot_hour,
         team_name |-> f[i].team_name] : i \in DOMAIN f } :
        f \in UNION { { g \in [1..n -> GridBookings] :
                          \A i, j \in DOMAIN g : i < j => SlotRank(g[i]) < SlotRank(g[j]) } :
                      n \in 0..MaxBookings } }

\* one grid query against a table of bookings made earlier
InitGrid ==
    /\ store \in Tables
    /\ seq = Cardinality(store)
    /\ pc = [p \in Procs |-> "idle"]
    /\ req = [p \in Procs |-> NoRequest]
    /\ new_booking = [p \in Procs |-> None]
    /\ bookings = [p \in Procs |-> << >>]
    /\ resp = [p \in Procs |-> NoResponse]

NextGrid ==
    \/ \E target_date \in Dates : get_dashboard_grid_select(1, target_date)
    \/ get_dashboard_grid_build(1)

SpecGrid == InitGrid /\ [][NextGrid]_vars

\* requests for slots that differ in room, in date or in hour
DistinctSlotInputs ==
    [room_id : {1, TOTAL_ROOMS}, booking_date : Dates, slot_hour : {10, 18},
     team_name : {"Alpha"}]

\* N requests for N different free slots, all past validation and about to
\* write; handler p holds the p-th of the slots in the order of SlotRank
InitDistinctSlots ==
    /\ store = {}
    /\ seq = 0
    /\ pc = [p \in Procs |-> "flush"]
    /\ req \in [Procs -> { [op |-> "book_slot", data |-> d] : d \in DistinctSlotInputs }]
    /\ \A p, q \in Procs : p < q => SlotRank(req[p].data) < SlotRank(req[q].data)
    /\ new_booking = [p \in Procs |-> NewBooking(req[p].data)]
    /\ bookings = [p \in Procs |-> << >>]
    /\ resp = [p \in Procs |-> NoResponse]

\* the steps up to the point where book_slot_flush would raise the conflict
NextDistinctSlots ==
    \E p \in Procs :
        \/ book_slot_flush(p)
        \/ book_slot_commit(p)
        \/ book_slot_refresh(p)

SpecDistinctSlots == InitDistinctSlots /\ [][NextDistinctSlots]_vars

\* the same grid query twice, the second call after the first has returned,
\* against a table that no booking changes meanwhile
NextTwice ==
    \/ \E target_date \in Dates : get_dashboard_grid_select(1, target_date)
    \/ get_dashboard_grid_build(1)
    \/ pc[1] = "done" /\ get_dashboard_grid_select(2, req[1].target_date)
    \/ get_dashboard_grid_build(2)

SpecTwice == InitGrid /\ [][NextTwice]_vars

(* ------------------------------ properties ----------------------------- *)
IsBooking(p) == req[p].op = "book_slot"
Returned(p, code) == pc[p] = "done" /\ resp[p].status = code
\* the committed rows that hold the slot a request asks for
Holders(rows, data) == { b \in rows : Triple(b) = Triple(data) }

\* C1: in every reachable state no two distinct committed bookings share the
\* triple (room_id, booking_date, slot_hour).
C1_UniqueTriple ==
    \A a, b \in store : a # b => Triple(a) # Triple(b)

\* C1 case: two handlers asked for one slot with different team names; one row
\* went in, the other handler got 409, and a further row holds another slot
C1_Witness ==
    /\ Cardinality(store) >= 2
    /\ \E p, q \in Procs :
         /\ Returned(p, 201) /\ Returned(q, 409)
         /\ Triple(req[p].data) = Triple(req[q].data)
         /\ req[p].data.team_name # req[q].data.team_name

\* C2: when N calls with valid input are made concurrently for one triple that
\* is not booked, then once all have returned exactly one has 201 and the
\* other N - 1 have 409.
C2_OneWinner ==
    (\A p \in Procs : pc[p] = "done") =>
        /\ Cardinality({ p \in Procs : resp[p].status = 201 }) = 1
        /\ Cardinality({ p \in Procs : resp[p].status = 409 }) = NumProc - 1

\* C2 case: all N have returned, the winner and a loser under different team
\* names
C2_Witness ==
    /\ \A p \in Procs : pc[p] = "done"
    /\ \E p, q \in Procs :
         /\ resp[p].status = 201 /\ resp[q].status = 409
         /\ req[p].data.team_name # req[q].data.team_name

\* the steps by which handler p learns of the conflict and reports it
ConflictStep(p) ==
    \/ pc[p] = "flush" /\ pc'[p] = "rollback"
    \/ pc[p] = "rollback" /\ pc'[p] = "done"

\* C3: a call that ends in conflict leaves the committed bookings as they
\* were: its failed write and its rollback add no row, and the row that holds
\* the slot stays the only one for the slot, with its id and team_name.
C3_ConflictLeavesStore ==
    [][ \A p \in Procs :
          ConflictStep(p) =>
            /\ store' = store
            /\ Cardinality(Holders(store, req[p].data)) = 1
            /\ Holders(store', req[p].data) = Holders(store, req[p].data)
            /\ pc'[p] = "done" => resp'[p].status = 409 ]_vars

\* C3 case: a call returned 409 for a slot that another team holds
C3_Witness ==
    \E p \in Procs :
        /\ Returned(p, 409)
        /\ \E b \in store :
             /\ Triple(b) = Triple(req[p].data)
             /\ b.team_name # req[p].data.team_name

\* C4: a call with valid input ends in conflict exactly when a committed
\* booking holds its triple at the moment of its write, and in success
\* otherwise; the response follows the outcome of the write.
C4_ConflictIffHeld ==
    [][ \A p \in Procs :
          /\ (pc[p] = "flush" /\ pc'[p] # "flush") =>
                pc'[p] = (IF Holders(store, req[p].data) # {} THEN "rollback" ELSE "commit")
          /\ (pc[p] = "rollback" /\ pc'[p] # "rollback") => Returned(p, 409)'
          /\ (pc[p] \in {"commit", "refresh"} /\ pc'[p] # pc[p]) =>
                pc'[p] = (IF pc[p] = "commit" THEN "refresh" ELSE "done")
          /\ (pc[p] = "refresh" /\ pc'[p] = "done") => Returned(p, 201)'
          /\ (pc[p] # "done" /\ Returned(p, 409)') =>
                Holders(store', req[p].data) # {}
          /\ (pc[p] # "done" /\ Returned(p, 201)') =>
                Holders(store', req[p].data) =
                    { [id |-> resp'[p].id,
                       room_id |-> req[p].data.room_id,
                       booking_date |-> req[p].data.booking_date,
                       slot_hour |-> req[p].data.slot_hour,
                       team_name |-> req[p].data.team_name] } ]_vars

\* C4 case: a slot was booked and the call had returned before a later call
\* for that slot wrote; the later call got 409, and a call for a free slot 201
C4_Witness ==
    \E p, q, r \in Procs :
        /\ Returned(p, 201) /\ Returned(q, 409) /\ Returned(r, 201)
        /\ Triple(req[p].data) = Triple(req[q].data)
        /\ Triple(req[r].data) # Triple(req[p].data)

\* a request as the spec's validator accepts it
ValidRequest(data) ==
    /\ 1 <= data.room_id /\ data.room_id <= TOTAL_ROOMS
    /\ data.slot_hour \in 10..18

\* C5: a call with room_id outside 1..TOTAL_ROOMS or slot_hour outside the
\* catalog returns 400 in its first step, before any storage access: the
\* store and the id sequence are unchanged, no row is built or inserted.
C5_RejectBeforeStorage ==
    [][ \A p \in Procs :
          (pc[p] = "idle" /\ pc'[p] # "idle" /\ IsBooking(p)' /\ ~ValidRequest(req'[p].data)) =>
            /\ Returned(p, 400)'
            /\ store' = store
            /\ seq' = seq
            /\ new_booking' = new_booking ]_vars

\* C5 case: a call was rejected while the store already held bookings
C5_Witness ==
    \E p \in Procs :
        /\ Returned(p, 400)
        /\ ~ValidRequest(req[p].data)
        /\ store # {}

\* C6: the validator accepts a request exactly when 1 <= room_id <= 10 and
\* slot_hour is one of 10..18, whatever team_name and booking_date are.
C6_ValidatorBoundaries ==
    \A p \in Procs :
        (pc[p] # "idle" /\ IsBooking(p)) =>
            LET d == req[p].data
                accepted == ~Returned(p, 400)
            IN /\ accepted <=> (d.room_id \in 1..10 /\ d.slot_hour \in 10..18)
               /\ d.room_id \in {0, 11} => ~accepted
               /\ d.slot_hour \in {9, 19} => ~accepted
               /\ (d.room_id \in {1, 10} /\ d.slot_hour \in {10, 18}) => accepted

\* C6 case: the upper boundary of both checks accepted, with an empty team name
C6_Witness ==
    /\ pc[1] = "flush"
    /\ req[1].data.room_id = 10
    /\ req[1].data.slot_hour = 18
    /\ req[1].data.team_name = ""

\* the cells of grid g, each with the room it is filed under
GridCells(g) ==
    UNION { { [room_id |-> g[i].room_id, cell |-> g[i].schedule[j]] :
                j \in DOMAIN g[i].schedule } : i \in DOMAIN g }

\* the slots a grid has to cover
CatalogSlots == (1..TOTAL_ROOMS) \X (10..18)

IsQuery(p) == req[p].op = "get_dashboard_grid"

\* C7: for every date D, room r of 1..TOTAL_ROOMS and catalog hour h, the cell
\* (r, h) of queryGrid(D) is "occupied" with team_name t exactly when the
\* store holds a booking (r, D, h) of team t, and "available" with team_name
\* null exactly when the store holds no booking (r, D, h).
C7_GridMatchesStore ==
    \A p \in Procs :
        Returned(p, 200) =>
            LET D == req[p].target_date
                cells == GridCells(resp[p].body)
            IN /\ CatalogSlots \subseteq { << x.room_id, x.cell.slot_hour >> : x \in cells }
               /\ \A x \in cells :
                    LET c == x.cell
                        held == { b \in store : Triple(b) = << x.room_id, D, c.slot_hour >> }
                    IN /\ c.status \in {"occupied", "available"}
                       /\ c.status = "occupied" <=> held # {}
                       /\ c.status = "available" <=> c.team_name = None
                       /\ \A t \in Teams :
                            (c.status = "occupied" /\ c.team_name = Some(t)) <=>
                                (\E b \in held : b.team_name = t)

\* C7 case: the grid of a date with the booking (3, 14, "Alpha") and a second
\* booking, while another date holds nothing
C7_Witness ==
    \E p \in Procs :
        /\ Returned(p, 200)
        /\ Cardinality(SelectBookings(store, req[p].target_date)) = 2
        /\ \E x \in GridCells(resp[p].body) :
             /\ x.room_id = 3 /\ x.cell.slot_hour = 14
             /\ x.cell.status = "occupied" /\ x.cell.team_name = Some("Alpha")
        /\ \E x \in GridCells(resp[p].body) : x.cell.status = "available"

\* C8: queryGrid returns exactly TOTAL_ROOMS room schedules of exactly
\* |OFFICE_HOURS_MAP| cells each, TOTAL_ROOMS x |OFFICE_HOURS_MAP| cells in
\* all, whatever the number of bookings on the date.
C8_GridComplete ==
    \A p \in Procs :
        Returned(p, 200) =>
            LET g == resp[p].body
            IN /\ Len(g) = TOTAL_ROOMS
               /\ \A i \in DOMAIN g : Len(g[i].schedule) = Len(OFFICE_HOURS_MAP)
               /\ Cardinality({ << i, j >> \in (DOMAIN g) \X (1..Len(OFFICE_HOURS_MAP)) :
                                  j \in DOMAIN g[i].schedule })
                    = TOTAL_ROOMS * Len(OFFICE_HOURS_MAP)

\* C8 case: the grid of a date without bookings, the table not being empty
C8_Witness ==
    \E p \in Procs :
        /\ Returned(p, 200)
        /\ SelectBookings(store, req[p].target_date) = {}
        /\ store # {}

\* the label the catalog gives an hour
CatalogLabel(h) ==
    LET i == CHOOSE k \in DOMAIN OFFICE_HOURS_MAP : OFFICE_HOURS_MAP[k].hour = h
    IN OFFICE_HOURS_MAP[i].label

\* C9: the room schedules come in the order room_id 1, 2, ..., TOTAL_ROOMS,
\* each room once; in every schedule the cells come in the order slot_hour
\* 10, 11, ..., 18, each hour once, with the catalog's label of the hour.
C9_GridOrder ==
    \A p \in Procs :
        Returned(p, 200) =>
            LET g == resp[p].body
            IN /\ DOMAIN g = 1..TOTAL_ROOMS
               /\ \A i \in DOMAIN g :
                    /\ g[i].room_id = i
                    /\ DOMAIN g[i].schedule = 1..9
                    /\ \A j \in DOMAIN g[i].schedule :
                         /\ g[i].schedule[j].slot_hour = 9 + j
                         /\ g[i].schedule[j].time_label =
                              CatalogLabel(g[i].schedule[j].slot_hour)

\* C9 case: a grid returned for a date whose bookings came back from the
\* SELECT in descending room order
C9_Witness ==
    \E p \in Procs :
        /\ Returned(p, 200)
        /\ Len(bookings[p]) = 2
        /\ bookings[p][1].room_id > bookings[p][2].room_id

\* C10: a booking of date D1 never shows in queryGrid(D2) for D2 # D1: every
\* occupied cell of queryGrid(D2) has a booking dated D2, and when the store
\* holds no booking dated D2 every cell is "available" with team_name null.
C10_NoCrossDate ==
    \A p \in Procs :
        Returned(p, 200) =>
            LET D2 == req[p].target_date
                cells == GridCells(resp[p].body)
            IN /\ \A x \in cells :
                    x.cell.status = "occupied" =>
                        \E b \in store :
                            /\ b.booking_date = D2
                            /\ b.room_id = x.room_id
                            /\ b.slot_hour = x.cell.slot_hour
               /\ (\A b \in store : b.booking_date # D2) =>
                    \A x \in cells : x.cell.status = "available" /\ x.cell.team_name = None

\* C10 case: the grid of a date without bookings while another date holds two
C10_Witness ==
    \E p \in Procs :
        /\ Returned(p, 200)
        /\ \A b \in store : b.booking_date # req[p].target_date
        /\ Cardinality(store) = 2
        /\ \A x \in GridCells(resp[p].body) : x.cell.status = "available"

\* C11: two calls of queryGrid(date) with no booking committed between them
\* return identical results: the same rooms, cells, statuses and team names in
\* the same order.
C11_QueryIdempotent ==
    (Returned(1, 200) /\ Returned(2, 200)) => resp[1].body = resp[2].body

\* C11 case: both calls returned, the SELECT having given the date's two rows
\* to the second call in another order than to the first
C11_Witness ==
    /\ Returned(1, 200) /\ Returned(2, 200)
    /\ req[1].target_date = req[2].target_date
    /\ Len(bookings[1]) = 2
    /\ bookings[1] # bookings[2]

\* C12: a booking is never updated or deleted: a committed record is in the
\* store of every later state with the same id, room_id, booking_date,
\* slot_hour and team_name.
C12_BookingsPermanent ==
    [][ \A b \in store : b \in store' ]_vars

\* C12 case: two bookings are stored, a further call for one of the slots
\* under another team name has returned 409, and a grid query has returned
C12_Witness ==
    /\ Cardinality(store) = 2
    /\ \E p \in Procs :
         /\ Returned(p, 409)
         /\ \E b \in store : Triple(b) = Triple(req[p].data)
                               /\ b.team_name # req[p].data.team_name

\* the rows that carry an id: committed ones and inserted, uncommitted ones
Numbered == store \cup UNION { Pending(p) : p \in Procs }

\* C13: booking ids are unique and never reused: all stored bookings have
\* pairwise distinct non-null ids, a row that enters the store brings an id no
\* stored or pending row ever had, and the id in a 201 response is the id of
\* the record that call created.
C13_IdsUnique ==
    [][ /\ \A a, b \in Numbered' : a # b => a.id # b.id
        /\ \A b \in Numbered' : b.id >= 1 /\ b.id <= seq'
        /\ \A b \in Numbered' \ Numbered : b.id > seq
        /\ \A p \in Procs :
             Returned(p, 201)' =>
                 \E b \in store' :
                     /\ b.id = resp'[p].id
                     /\ Triple(b) = Triple(req'[p].data)
                     /\ b.team_name = req'[p].data.team_name ]_vars

\* C13 case: a conflict has used up an id between two successful calls: the
\* stored ids are not consecutive, and both creators have their ids back
C13_Witness ==
    /\ \E a, b \in store : b.id > a.id + 1
    /\ \E p, q \in Procs :
         /\ p # q /\ Returned(p, 201) /\ Returned(q, 201)
         /\ resp[p].id # resp[q].id

\* C14: every stored booking has room_id in 1..TOTAL_ROOMS and slot_hour
\* among the catalog's keys 10..18.
C14_StoredInCatalog ==
    \A b \in store :
        /\ 1 <= b.room_id /\ b.room_id <= TOTAL_ROOMS
        /\ b.slot_hour \in 10..18

\* C14 case: requests with room 0 and with hour 19 have both been answered,
\* and a booking is stored
C14_Witness ==
    /\ store # {}
    /\ \E p, q \in Procs :
         /\ Returned(p, 400) /\ req[p].data.room_id = 0
         /\ Returned(q, 400) /\ req[q].data.slot_hour = 19

\* C15 as claimed: the team_name of every stored booking is a non-empty
\* string.
C15_TeamNonEmpty ==
    \A b \in store : b.team_name # ""

\* C15 as the code has it: the team_name of every stored booking is the
\* team_name string of the request that created it, stored as sent, the empty
\* string included.
C15_TeamAsRequested ==
    \A b \in store :
        /\ b.team_name \in Teams
        /\ \E p \in Procs :
             /\ IsBooking(p)
             /\ (pc[p] = "refresh" \/ Returned(p, 201))
             /\ new_booking[p].id = b.id
             /\ Triple(req[p].data) = Triple(b)
             /\ req[p].data.team_name = b.team_name

\* C15 case: one stored booking under the empty team name, one under "Alpha"
C15_Witness ==
    \E a, b \in store : a.team_name = "" /\ b.team_name = "Alpha"

\* the row a successful call of p for its request puts into the table
CreatedBy(p, row) ==
    /\ row.room_id = req[p].data.room_id
    /\ row.booking_date = req[p].data.booking_date
    /\ row.slot_hour = req[p].data.slot_hour
    /\ row.team_name = req[p].data.team_name

\* C16: the store changes only in the commit of a successful createBooking,
\* which adds exactly one booking with the request's room_id, booking_date,
\* slot_hour and team_name and leaves every other booking as it was; no other
\* step (validation, rejection, conflict handling, queryGrid) changes it.
C16_OnlyCreateMutates ==
    [][ /\ store' # store =>
             \E p \in Procs :
                 /\ IsBooking(p) /\ pc[p] = "commit" /\ pc'[p] = "refresh"
                 /\ \E row \in store' \ store :
                      /\ store' = store \cup {row}
                      /\ CreatedBy(p, row)
        /\ \A p \in Procs :
             (pc[p] = "commit" /\ pc'[p] = "refresh") =>
                 Cardinality(store') = Cardinality(store) + 1
        /\ \A p \in Procs :
             (pc'[p] # pc[p] /\ pc[p] # "commit") => store' = store ]_vars

\* C16 case: a second booking went in next to a first one, after a rejection,
\* a conflict or a query had been answered
C16_Witness ==
    /\ Cardinality(store) = 2
    /\ \E p \in Procs : pc[p] = "done" /\ resp[p].status \in {200, 400, 409}

\* C17: the two validation failures are told apart and checked in a fixed
\* order: a room_id outside 1..TOTAL_ROOMS gives "Invalid Room ID" whatever
\* slot_hour is, and the invalid-slot message is given only when room_id is
\* valid and slot_hour is not in the catalog.
C17_ValidationOrder ==
    \A p \in Procs :
        (pc[p] # "idle" /\ IsBooking(p)) =>
            LET d == req[p].data
                room_ok == 1 <= d.room_id /\ d.room_id <= TOTAL_ROOMS
                slot_ok == d.slot_hour \in 10..18
            IN /\ ~room_ok =>
                    Returned(p, 400) /\ resp[p].detail = "Invalid Room ID"
               /\ (room_ok /\ ~slot_ok) =>
                    /\ Returned(p, 400)
                    /\ resp[p].detail = "Invalid time slot. Office open 10-19"
               /\ (Returned(p, 400) /\ resp[p].detail # "Invalid Room ID") =>
                    room_ok /\ ~slot_ok

\* C17 case: room_id and slot_hour both invalid, answered with the room
\* message
C17_Witness ==
    /\ Returned(1, 400)
    /\ req[1].data.room_id = TOTAL_ROOMS + 1
    /\ req[1].data.slot_hour = 19
    /\ resp[1].detail = "Invalid Room ID"

\* C18: concurrent calls with valid input for pairwise distinct free triples
\* all return 201 under every interleaving, none waits for or conflicts with
\* another, and afterwards the store holds exactly one booking per requested
\* triple.
C18_DistinctSlotsAllSucceed ==
    /\ \A p \in Procs :
         /\ pc[p] # "rollback"
         /\ pc[p] = "flush" => ~InsertWaits(p)
         /\ pc[p] = "done" => resp[p].status = 201
    /\ (\A p \in Procs : pc[p] = "done") =>
         /\ Cardinality(store) = NumProc
         /\ \A p \in Procs :
              Cardinality({ b \in store : CreatedBy(p, b) }) = 1

\* C18 case: all calls have returned, their slots pairwise different, two of
\* them in the same room on the same date
C18_Witness ==
    /\ \A p \in Procs : Returned(p, 201)
    /\ \A p, q \in Procs : p # q => Triple(req[p].data) # Triple(req[q].data)
    /\ \E p, q \in Procs :
         /\ p # q
         /\ req[p].data.room_id = req[q].data.room_id
         /\ req[p].data.booking_date = req[q].data.booking_date

\* grid g shows the slot of row b occupied under b's team name
ShowsBooking(g, b) ==
    \E i \in DOMAIN g :
        /\ g[i].room_id = b.room_id
        /\ \E j \in DOMAIN g[i].schedule :
             /\ g[i].schedule[j].slot_hour = b.slot_hour
             /\ g[i].schedule[j].status = "occupied"
             /\ g[i].schedule[j].team_name = Some(b.team_name)

\* C19: once createBooking(r, D, h, t) has returned 201, every queryGrid(D)
\* that starts afterwards reads the booking and returns a grid whose cell
\* (r, h) is "occupied" with team_name t, whatever other calls are served in
\* between.
C19_ReadYourBooking ==
    [][ \A q \in Procs :
          /\ (pc[q] = "idle" /\ pc'[q] = "build") =>
                \A p \in Procs :
                    (Returned(p, 201) /\ req[p].data.booking_date = req'[q].target_date) =>
                        /\ \E i \in DOMAIN bookings'[q] : CreatedBy(p, bookings'[q][i])
                        /\ ShowsBooking(dashboard_data(bookings'[q]), req[p].data)
          /\ (pc[q] = "build" /\ pc'[q] = "done") =>
                \A i \in DOMAIN bookings[q] : ShowsBooking(resp'[q].body, bookings[q][i]) ]_vars

\* C19 case: a booking was made, a later call for its slot under another
\* team name got 409, and a grid of the date shows the first team
C19_Witness ==
    \E p, q, r \in Procs :
        /\ Returned(p, 201) /\ Returned(r, 409) /\ Returned(q, 200)
        /\ Triple(req[r].data) = Triple(req[p].data)
        /\ req[r].data.team_name # req[p].data.team_name
        /\ req[q].target_date = req[p].data.booking_date
        /\ ShowsBooking(resp[q].body, req[p].data)

\* the calls whose row is committed
Committed == { p \in Procs : IsBooking(p) /\ (pc[p] = "refresh" \/ Returned(p, 201)) }

\* a returned call has one of the three outcomes, and the table holds the rows
\* of the calls that report or are about to report 201, and no other row
OutcomeMatchesStore ==
    /\ \A p \in Procs :
         (IsBooking(p) /\ pc[p] = "done") =>
             /\ resp[p].status \in {201, 400, 409}
             /\ resp[p].status = 201 =>
                  \E b \in store : b.id = resp[p].id /\ CreatedBy(p, b)
    /\ Cardinality(store) = Cardinality(Committed)
    /\ \A b \in store : \E p \in Committed : new_booking[p].id = b.id

\* C20: every createBooking call ends, with exactly one of the outcomes 201
\* with an id, 400 or 409; no call reports 400 or 409 with its booking
\* committed, and none reports 201 without its booking committed.
C20_EndsWithOneOutcome ==
    /\ []OutcomeMatchesStore
    /\ \A p \in Procs : (IsBooking(p) /\ pc[p] # "done") ~> (pc[p] = "done")

\* C20 case: three calls have ended, one with each outcome
C20_Witness ==
    \E p, q, r \in Procs :
        Returned(p, 201) /\ Returned(q, 400) /\ Returned(r, 409)

====
